---- MODULE Spec2Model ----
(***************************************************************************)
(* Model of the advisense-dsl expression parser: Parser.parse (whitespace  *)
(* stripping, isValid, tokenize, shunting-yard, RPN to AST),               *)
(* Parser.deserialize, and the AST nodes NumberNode and                    *)
(* BinaryOperationNode (evaluate, print, serialize).                       *)
(*                                                                         *)
(* Strings are sequences of one-character strings.  JavaScript numbers are *)
(* modelled as exact rationals n/d (d > 0, lowest terms) extended with     *)
(* Infinity, -Infinity and NaN; binary64 rounding is not modelled.  The    *)
(* sign of zero is not modelled: the code cannot observe it (-0 === 0,     *)
(* (-0).toString() is "0", and a boolean divisor coerces to +0).           *)
(***************************************************************************)
EXTENDS Integers, Sequences, FiniteSets, TLC

VARIABLES expr, pc, error, ast, value, printed, serial, rebuilt

vars == <<expr, pc, error, ast, value, printed, serial, rebuilt>>

-----------------------------------------------------------------------------
(* JavaScript values: number | boolean *)

Abs(x) == IF x < 0 THEN -x ELSE x

RECURSIVE GCD(_, _)
GCD(a, b) == IF b = 0 THEN a ELSE GCD(b, a % b)

\* a finite number n/d in lowest terms
Num(n, d) ==
    LET g == GCD(Abs(n), Abs(d))
        s == IF d < 0 THEN -1 ELSE 1
    IN  [k |-> "num", n |-> (s * n) \div g, d |-> (s * d) \div g]

IntNum(n) == [k |-> "num", n |-> n, d |-> 1]
Inf(s) == [k |-> "inf", n |-> s, d |-> 0]
NaN == [k |-> "nan", n |-> 0, d |-> 0]
Bool(b) == [k |-> "bool", n |-> IF b THEN 1 ELSE 0, d |-> 1]

IsNumber(v) == v.k # "bool"
IsZero(v) == v.k = "num" /\ v.n = 0
Sgn(v) == IF v.n < 0 THEN -1 ELSE IF v.n > 0 THEN 1 ELSE 0

\* ToNumber: what an arithmetic or relational operator makes of an operand
ToNumber(v) == IF v.k = "bool" THEN IntNum(v.n) ELSE v

Neg(a) ==
    CASE a.k = "nan" -> NaN
      [] a.k = "inf" -> Inf(-a.n)
      [] OTHER -> [k |-> "num", n |-> -a.n, d |-> a.d]

Add(a, b) ==
    CASE a.k = "nan" \/ b.k = "nan" -> NaN
      [] a.k = "inf" -> IF b.k = "inf" /\ b.n # a.n THEN NaN ELSE a
      [] b.k = "inf" -> b
      [] OTHER -> Num(a.n * b.d + b.n * a.d, a.d * b.d)

Sub(a, b) == Add(a, Neg(b))

Mul(a, b) ==
    CASE a.k = "nan" \/ b.k = "nan" -> NaN
      [] a.k = "inf" \/ b.k = "inf" ->
            IF Sgn(a) * Sgn(b) = 0 THEN NaN ELSE Inf(Sgn(a) * Sgn(b))
      [] OTHER -> Num(a.n * b.n, a.d * b.d)

\* a zero divisor here is +0: it can only be the coercion of false
Div(a, b) ==
    CASE a.k = "nan" \/ b.k = "nan" -> NaN
      [] a.k = "inf" -> IF b.k = "inf" THEN NaN
                        ELSE Inf(a.n * (IF b.n < 0 THEN -1 ELSE 1))
      [] b.k = "inf" -> IntNum(0)
      [] b.n = 0 -> IF a.n = 0 THEN NaN ELSE Inf(Sgn(a))
      [] OTHER -> Num(a.n * b.d, a.d * b.n)

Less(a, b) ==
    CASE a.k = "nan" \/ b.k = "nan" -> FALSE
      [] a.k = "inf" -> a.n = -1 /\ ~(b.k = "inf" /\ b.n = -1)
      [] b.k = "inf" -> b.n = 1
      [] OTHER -> a.n * b.d < b.n * a.d

\* === : same type and same value; NaN equals nothing
StrictEquals(l, r) ==
    /\ (l.k = "bool") = (r.k = "bool")
    /\ l.k # "nan"
    /\ l = r

-----------------------------------------------------------------------------
(* Number.prototype.toString for the values a NumberNode holds *)

Digits == <<"0", "1", "2", "3", "4", "5", "6", "7", "8", "9">>

RECURSIVE NatToString(_)
NatToString(n) ==
    IF n < 10 THEN <<Digits[n + 1]>>
    ELSE NatToString(n \div 10) \o <<Digits[(n % 10) + 1]>>

\* the digits after the point of r/d, 0 <= r < d, a terminating decimal
RECURSIVE FractionDigits(_, _)
FractionDigits(r, d) ==
    IF r = 0 THEN <<>>
    ELSE <<Digits[((r * 10) \div d) + 1]>> \o FractionDigits((r * 10) % d, d)

NumberToString(v) ==
    CASE v.k = "nan" -> <<"N", "a", "N">>
      [] v.k = "inf" -> (IF v.n < 0 THEN <<"-">> ELSE <<>>)
                            \o <<"I", "n", "f", "i", "n", "i", "t", "y">>
      [] OTHER ->
            LET a == Abs(v.n)
                frac == FractionDigits(a % v.d, v.d)
            IN  (IF v.n < 0 THEN <<"-">> ELSE <<>>)
                    \o NatToString(a \div v.d)
                    \o (IF frac = <<>> THEN <<>> ELSE <<".">> \o frac)

-----------------------------------------------------------------------------
(* AST nodes *)

Operators == {"+", "-", "*", "/", "<", ">", "="}

NumberNode(v) == [class |-> "NumberNode", value |-> v]

BinaryOperationNode(l, r, op) ==
    [class |-> "BinaryOperationNode", left |-> l, right |-> r, operator |-> op]

Returned(v) == [err |-> "", v |-> v]
Thrown(e) == [err |-> e, v |-> NaN]

\* mutant of ApplyOperator: the divisor is tested with == 0, which false passes
ApplyOperatorLooseZero(op, leftVal, rightVal) ==
    CASE op = "+" -> Returned(Add(ToNumber(leftVal), ToNumber(rightVal)))
      [] op = "-" -> Returned(Sub(ToNumber(leftVal), ToNumber(rightVal)))
      [] op = "*" -> Returned(Mul(ToNumber(leftVal), ToNumber(rightVal)))
      [] op = "/" -> IF IsZero(ToNumber(rightVal)) THEN Thrown("DivisionByZero")
                     ELSE Returned(Div(ToNumber(leftVal), ToNumber(rightVal)))
      [] op = "<" -> Returned(Bool(Less(ToNumber(leftVal), ToNumber(rightVal))))
      [] op = ">" -> Returned(Bool(Less(ToNumber(rightVal), ToNumber(leftVal))))
      [] op = "=" -> Returned(Bool(StrictEquals(leftVal, rightVal)))
      [] OTHER -> Thrown("UnknownOperator")

\* mutant of ApplyOperator: arithmetic on a boolean operand throws
ApplyOperatorTyped(op, leftVal, rightVal) ==
    CASE op \in {"+", "-", "*", "/"} /\ ~(IsNumber(leftVal) /\ IsNumber(rightVal)) ->
            Thrown("TypeError")
      [] op = "+" -> Returned(Add(leftVal, rightVal))
      [] op = "-" -> Returned(Sub(leftVal, rightVal))
      [] op = "*" -> Returned(Mul(leftVal, rightVal))
      [] op = "/" -> IF IsZero(rightVal) THEN Thrown("DivisionByZero")
                     ELSE Returned(Div(leftVal, rightVal))
      [] op = "<" -> Returned(Bool(Less(ToNumber(leftVal), ToNumber(rightVal))))
      [] op = ">" -> Returned(Bool(Less(ToNumber(rightVal), ToNumber(leftVal))))
      [] op = "=" -> Returned(Bool(StrictEquals(leftVal, rightVal)))
      [] OTHER -> Thrown("UnknownOperator")

ApplyOperator(op, leftVal, rightVal) ==
    CASE op = "+" -> Returned(Add(ToNumber(leftVal), ToNumber(rightVal)))
      [] op = "-" -> Returned(Sub(ToNumber(leftVal), ToNumber(rightVal)))
      [] op = "*" -> Returned(Mul(ToNumber(leftVal), ToNumber(rightVal)))
      [] op = "/" -> IF IsZero(rightVal) THEN Thrown("DivisionByZero")
                     ELSE Returned(Div(ToNumber(leftVal), ToNumber(rightVal)))
      [] op = "<" -> Returned(Bool(Less(ToNumber(leftVal), ToNumber(rightVal))))
      [] op = ">" -> Returned(Bool(Less(ToNumber(rightVal), ToNumber(leftVal))))
      [] op = "=" -> Returned(Bool(StrictEquals(leftVal, rightVal)))
      [] OTHER -> Thrown("UnknownOperator")

RECURSIVE Evaluate(_)
Evaluate(node) ==
    IF node.class = "NumberNode" THEN Returned(node.value)
    ELSE LET l == Evaluate(node.left)
         IN  IF l.err # "" THEN l
             ELSE LET r == Evaluate(node.right)
                  IN  IF r.err # "" THEN r
                      ELSE ApplyOperator(node.operator, l.v, r.v)

\* mutant of PrintNode: a multiplicative node is printed without parentheses
RECURSIVE PrintNodeMinimal(_)
PrintNodeMinimal(node) ==
    IF node.class = "NumberNode" THEN NumberToString(node.value)
    ELSE IF node.operator \in {"*", "/"}
    THEN PrintNodeMinimal(node.left) \o <<" ", node.operator, " ">>
            \o PrintNodeMinimal(node.right)
    ELSE <<"(">> \o PrintNodeMinimal(node.left) \o <<" ", node.operator, " ">>
            \o PrintNodeMinimal(node.right) \o <<")">>

RECURSIVE PrintNode(_)
PrintNode(node) ==
    IF node.class = "NumberNode" THEN NumberToString(node.value)
    ELSE <<"(">> \o PrintNode(node.left) \o <<" ", node.operator, " ">>
            \o PrintNode(node.right) \o <<")">>

RECURSIVE Serialize(_)
Serialize(node) ==
    IF node.class = "NumberNode"
    THEN [type |-> "NumberNode", value |-> node.value]
    ELSE [type |-> "BinaryOperationNode", operator |-> node.operator,
          left |-> Serialize(node.left), right |-> Serialize(node.right)]

\* mutant of Deserialize: the subtrees are passed to the constructor in the
\* order of the serialized fields' declaration
RECURSIVE DeserializeSwapped(_)
DeserializeSwapped(s) ==
    CASE s.type = "NumberNode" -> <<NumberNode(s.value)>>
      [] s.type = "BinaryOperationNode" ->
            LET leftNode == DeserializeSwapped(s.left)
            IN  IF leftNode = <<>> THEN <<>>
                ELSE LET rightNode == DeserializeSwapped(s.right)
                     IN  IF rightNode = <<>> THEN <<>>
                         ELSE <<BinaryOperationNode(rightNode[1], leftNode[1],
                                                    s.operator)>>
      [] OTHER -> <<>>

\* <<node>>, or <<>> when deserialize throws 'Unrecognized serialized node type'
RECURSIVE Deserialize(_)
Deserialize(s) ==
    CASE s.type = "NumberNode" -> <<NumberNode(s.value)>>
      [] s.type = "BinaryOperationNode" ->
            LET leftNode == Deserialize(s.left)
            IN  IF leftNode = <<>> THEN <<>>
                ELSE LET rightNode == Deserialize(s.right)
                     IN  IF rightNode = <<>> THEN <<>>
                         ELSE <<BinaryOperationNode(leftNode[1], rightNode[1],
                                                    s.operator)>>
      [] OTHER -> <<>>

-----------------------------------------------------------------------------
(* Parser *)

Whitespace == {" ", "\t", "\n"}
DigitChars == {"0", "1", "2", "3", "4", "5", "6", "7", "8", "9"}
NumberChars == DigitChars \cup {"."}
SymbolChars == {"+", "-", "*", "/", "(", ")", "<", ">", "="}

\* mutant of StripWhitespace: replace without the g flag removes only the first
\* run of white space
StripFirstRun(e) ==
    LET spaces == {i \in 1..Len(e) : e[i] \in Whitespace}
    IN  IF spaces = {} THEN e
        ELSE LET first == CHOOSE i \in spaces : \A j \in spaces : i <= j
                 rest == {j \in first..Len(e) : e[j] \notin Whitespace}
                 next == IF rest = {} THEN Len(e) + 1
                         ELSE CHOOSE j \in rest : \A k \in rest : j <= k
             IN  SubSeq(e, 1, first - 1) \o SubSeq(e, next, Len(e))

\* expr.replace(/\s+/g, '')
StripWhitespace(e) == SelectSeq(e, LAMBDA c : c \notin Whitespace)

RECURSIVE IsValidFrom(_, _, _)
IsValidFrom(s, i, stack) ==
    IF i > Len(s) THEN Len(stack) = 0
    ELSE IF s[i] = "(" THEN IsValidFrom(s, i + 1, Append(stack, s[i]))
    ELSE IF s[i] = ")"
         THEN IF Len(stack) > 0 /\ stack[Len(stack)] = "("
              THEN IsValidFrom(s, i + 1, SubSeq(stack, 1, Len(stack) - 1))
              ELSE FALSE
    ELSE IsValidFrom(s, i + 1, stack)

IsValid(s) == IsValidFrom(s, 1, <<>>)

DigitValue(c) == CHOOSE n \in 0..9 : Digits[n + 1] = c

\* the number of characters of s from position i on that are digits
RECURSIVE DigitRun(_, _)
DigitRun(s, i) ==
    IF i > Len(s) \/ s[i] \notin DigitChars THEN 0 ELSE 1 + DigitRun(s, i + 1)

RECURSIVE DigitsValue(_)
DigitsValue(ds) ==
    IF ds = <<>> THEN 0
    ELSE 10 * DigitsValue(SubSeq(ds, 1, Len(ds) - 1)) + DigitValue(ds[Len(ds)])

RECURSIVE Pow10(_)
Pow10(n) == IF n = 0 THEN 1 ELSE 10 * Pow10(n - 1)

\* parseFloat on a run of [0-9.]: the longest prefix that is a decimal literal
ParseFloat(num) ==
    LET il == DigitRun(num, 1)
        hasPoint == il < Len(num) /\ num[il + 1] = "."
        fl == IF hasPoint THEN DigitRun(num, il + 2) ELSE 0
        ip == DigitsValue(SubSeq(num, 1, il))
        fp == DigitsValue(SubSeq(num, il + 2, il + 1 + fl))
    IN  IF il = 0 /\ fl = 0 THEN NaN
        ELSE Num(ip * Pow10(fl) + fp, Pow10(fl))

NumberToken(v) == [num |-> TRUE, v |-> v, s |-> ""]
SymbolToken(c) == [num |-> FALSE, v |-> NaN, s |-> c]

\* the first position from i on that holds no character of [0-9.]
RECURSIVE RunEnd(_, _)
RunEnd(s, i) ==
    IF i > Len(s) \/ s[i] \notin NumberChars THEN i ELSE RunEnd(s, i + 1)

NoError == [err |-> "", ch |-> "", pos |-> -1]
Error(e) == [err |-> e, ch |-> "", pos |-> -1]

\* mutant of TokenizeFrom: the position is reported one-based
RECURSIVE TokenizeFromOneBased(_, _, _)
TokenizeFromOneBased(s, i, res) ==
    IF i > Len(s) THEN [error |-> NoError, tokens |-> res]
    ELSE IF s[i] \in NumberChars
         THEN LET j == RunEnd(s, i)
              IN  TokenizeFromOneBased(s, j,
                     Append(res, NumberToken(ParseFloat(SubSeq(s, i, j - 1)))))
    ELSE IF s[i] \in SymbolChars
         THEN TokenizeFromOneBased(s, i + 1, Append(res, SymbolToken(s[i])))
    ELSE [error |-> [err |-> "UnexpectedToken", ch |-> s[i], pos |-> i],
          tokens |-> <<>>]

\* positions are reported zero-based: the model's index i is s[i - 1] in the code
RECURSIVE TokenizeFrom(_, _, _)
TokenizeFrom(s, i, res) ==
    IF i > Len(s) THEN [error |-> NoError, tokens |-> res]
    ELSE IF s[i] \in NumberChars
         THEN LET j == RunEnd(s, i)
              IN  TokenizeFrom(s, j,
                     Append(res, NumberToken(ParseFloat(SubSeq(s, i, j - 1)))))
    ELSE IF s[i] \in SymbolChars
         THEN TokenizeFrom(s, i + 1, Append(res, SymbolToken(s[i])))
    ELSE [error |-> [err |-> "UnexpectedToken", ch |-> s[i], pos |-> i - 1],
          tokens |-> <<>>]

Tokenize(s) == TokenizeFrom(s, 1, <<>>)

IsVaildOp(t) == t \in {"+", "-", "*", "/", "<", ">", "="}

\* mutant of Precedence: every operator on one level
PrecedenceFlat(op) == IF op = "+" \/ op = "-" THEN 1 ELSE 1

Precedence(op) == IF op = "+" \/ op = "-" THEN 1 ELSE 2

Top(stack) == stack[Len(stack)]
Pop(stack) == SubSeq(stack, 1, Len(stack) - 1)

\* mutant of PopOperators: the top of the stack is not tested with isVaildOp,
\* so a "(" (precedence 2) is popped like an operator
RECURSIVE PopOperatorsThroughParen(_, _, _)
PopOperatorsThroughParen(outputQueue, opStack, tk) ==
    IF /\ Len(opStack) > 0
       /\ Precedence(Top(opStack)) >= Precedence(tk)
    THEN PopOperatorsThroughParen(Append(outputQueue, SymbolToken(Top(opStack))),
                                  Pop(opStack), tk)
    ELSE [outputQueue |-> outputQueue, opStack |-> opStack]

\* the while loop of the operator branch
RECURSIVE PopOperators(_, _, _)
PopOperators(outputQueue, opStack, tk) ==
    IF /\ Len(opStack) > 0
       /\ IsVaildOp(Top(opStack))
       /\ Precedence(Top(opStack)) >= Precedence(tk)
    THEN PopOperators(Append(outputQueue, SymbolToken(Top(opStack))),
                      Pop(opStack), tk)
    ELSE [outputQueue |-> outputQueue, opStack |-> opStack]

\* the while loop of the ')' branch
RECURSIVE PopToParen(_, _)
PopToParen(outputQueue, opStack) ==
    IF Len(opStack) > 0 /\ Top(opStack) # "("
    THEN PopToParen(Append(outputQueue, SymbolToken(Top(opStack))), Pop(opStack))
    ELSE [outputQueue |-> outputQueue, opStack |-> opStack]

\* the drain loop
RECURSIVE Drain(_, _)
Drain(outputQueue, opStack) ==
    IF Len(opStack) > 0
    THEN Drain(Append(outputQueue, SymbolToken(Top(opStack))), Pop(opStack))
    ELSE outputQueue

\* one iteration of the shunting-yard loop; pop() of an empty array changes nothing
ShuntingYardStep(tk, outputQueue, opStack) ==
    IF tk.num
    THEN [outputQueue |-> Append(outputQueue, tk), opStack |-> opStack]
    ELSE IF IsVaildOp(tk.s)
    THEN LET p == PopOperators(outputQueue, opStack, tk.s)
         IN  [outputQueue |-> p.outputQueue, opStack |-> Append(p.opStack, tk.s)]
    ELSE IF tk.s = "("
    THEN [outputQueue |-> outputQueue, opStack |-> Append(opStack, tk.s)]
    ELSE LET p == PopToParen(outputQueue, opStack)
         IN  [outputQueue |-> p.outputQueue,
              opStack |-> IF Len(p.opStack) > 0 THEN Pop(p.opStack) ELSE p.opStack]

RECURSIVE ShuntingYardFrom(_, _, _, _)
ShuntingYardFrom(tokens, i, outputQueue, opStack) ==
    IF i > Len(tokens) THEN Drain(outputQueue, opStack)
    ELSE LET st == ShuntingYardStep(tokens[i], outputQueue, opStack)
         IN  ShuntingYardFrom(tokens, i + 1, st.outputQueue, st.opStack)

ShuntingYard(tokens) == ShuntingYardFrom(tokens, 1, <<>>, <<>>)

\* mutant of BuildTreeFrom: only an empty node stack is rejected at the end
RECURSIVE BuildTreeFromLenient(_, _, _)
BuildTreeFromLenient(outputQueue, i, astStack) ==
    IF i > Len(outputQueue)
    THEN IF Len(astStack) = 0
         THEN [error |-> Error("InvalidExpression"), ast |-> <<>>]
         ELSE [error |-> NoError, ast |-> <<astStack[1]>>]
    ELSE IF outputQueue[i].num
    THEN BuildTreeFromLenient(outputQueue, i + 1,
                              Append(astStack, NumberNode(outputQueue[i].v)))
    ELSE IF Len(astStack) < 2
    THEN [error |-> Error("InsufficientOperands"), ast |-> <<>>]
    ELSE LET right == astStack[Len(astStack)]
             left == astStack[Len(astStack) - 1]
         IN  BuildTreeFromLenient(outputQueue, i + 1,
                Append(SubSeq(astStack, 1, Len(astStack) - 2),
                       BinaryOperationNode(left, right, outputQueue[i].s)))

\* RPN to AST
RECURSIVE BuildTreeFrom(_, _, _)
BuildTreeFrom(outputQueue, i, astStack) ==
    IF i > Len(outputQueue)
    THEN IF Len(astStack) # 1
         THEN [error |-> Error("InvalidExpression"), ast |-> <<>>]
         ELSE [error |-> NoError, ast |-> <<astStack[1]>>]
    ELSE IF outputQueue[i].num
    THEN BuildTreeFrom(outputQueue, i + 1,
                       Append(astStack, NumberNode(outputQueue[i].v)))
    ELSE IF Len(astStack) < 2
    THEN [error |-> Error("InsufficientOperands"), ast |-> <<>>]
    ELSE LET right == astStack[Len(astStack)]
             left == astStack[Len(astStack) - 1]
         IN  BuildTreeFrom(outputQueue, i + 1,
                Append(SubSeq(astStack, 1, Len(astStack) - 2),
                       BinaryOperationNode(left, right, outputQueue[i].s)))

BuildTree(outputQueue) == BuildTreeFrom(outputQueue, 1, <<>>)

\* mutant of Parse: the line is tokenized before its parentheses are checked
ParseTokenizeFirst(e) ==
    LET s == StripWhitespace(e)
        t == Tokenize(s)
    IN  IF t.error.err # "" THEN [error |-> t.error, ast |-> <<>>]
        ELSE IF ~IsValid(s) THEN [error |-> Error("InvalidParentheses"), ast |-> <<>>]
        ELSE BuildTree(ShuntingYard(t.tokens))

\* Parser.parse: the error thrown (NoError when it returns) and the node returned
Parse(e) ==
    LET s == StripWhitespace(e)
    IN  IF ~IsValid(s) THEN [error |-> Error("InvalidParentheses"), ast |-> <<>>]
        ELSE LET t == Tokenize(s)
             IN  IF t.error.err # "" THEN [error |-> t.error, ast |-> <<>>]
                 ELSE BuildTree(ShuntingYard(t.tokens))

-----------------------------------------------------------------------------
(* The callers: a line is typed and parsed, the tree is evaluated and      *)
(* printed (index.ts), then serialized and deserialized (the tests).       *)
(* ast, value, printed, serial and rebuilt hold <<>> until they are set.   *)

MaxLen == 5
MaxInfixLen == 7
MaxOps == 2

\* the characters typed: accepted ones, white space and two illegal ones
Alphabet == {"1", ".", "+", "<", "(", ")", " ", "$", "a"}

\* the characters of the infix lines
InfixDigits == {"0", "2"}
InfixAlphabet == InfixDigits \cup {"+", "-", "*", "/", "(", ")"}

\* the number values of the directly constructed trees
Leaves == {IntNum(0), IntNum(1), Num(5, 10)}

RECURSIVE Trees(_)
Trees(k) ==
    IF k = 0 THEN {NumberNode(v) : v \in Leaves}
    ELSE UNION {{BinaryOperationNode(l, r, op) :
                    l \in Trees(i), r \in Trees(k - 1 - i), op \in Operators} :
                i \in 0..(k - 1)}

Depth(s) == Cardinality({i \in 1..Len(s) : s[i] = "("})
                - Cardinality({i \in 1..Len(s) : s[i] = ")"})

\* c keeps the line a prefix of an infix expression: an operand is a number or a
\* group, operands and operators alternate, a group closes after an operand
CanFollow(s, c) ==
    LET last == IF Len(s) = 0 THEN "" ELSE s[Len(s)]
        afterOperand == last \in InfixDigits \cup {")"}
    IN  CASE c \in InfixDigits -> last # ")"
          [] c = "(" -> ~afterOperand
          [] c = ")" -> afterOperand /\ Depth(s) > 0
          [] OTHER -> afterOperand

Blank ==
    /\ error = NoError
    /\ ast = <<>>
    /\ value = <<>>
    /\ printed = <<>>
    /\ serial = <<>>
    /\ rebuilt = <<>>

Init ==
    /\ expr = <<>>
    /\ pc = "input"
    /\ Blank

InitTree ==
    /\ expr = <<>>
    /\ pc = "tree"
    /\ error = NoError
    /\ \E k \in 0..MaxOps :
          IF k = 0
          THEN \E v \in Leaves : ast = <<NumberNode(v)>>
          ELSE \E i \in 0..(k - 1) :
                  \E l \in Trees(i), r \in Trees(k - 1 - i), op \in Operators :
                      ast = <<BinaryOperationNode(l, r, op)>>
    /\ value = <<>>
    /\ printed = <<>>
    /\ serial = <<>>
    /\ rebuilt = <<>>

Type(c) ==
    /\ pc = "input"
    /\ Len(expr) < MaxLen
    /\ expr' = Append(expr, c)
    /\ UNCHANGED <<pc, error, ast, value, printed, serial, rebuilt>>

TypeInfix(c) ==
    /\ pc = "input"
    /\ Len(expr) < MaxInfixLen
    /\ CanFollow(expr, c)
    /\ expr' = Append(expr, c)
    /\ UNCHANGED <<pc, error, ast, value, printed, serial, rebuilt>>

CallParse ==
    /\ pc = "input"
    /\ LET r == Parse(expr)
       IN  /\ error' = r.error
           /\ ast' = r.ast
           /\ pc' = IF r.error.err = "" THEN "tree" ELSE "rejected"
    /\ UNCHANGED <<expr, value, printed, serial, rebuilt>>

CallEvaluate ==
    /\ pc = "tree"
    /\ value' = <<Evaluate(ast[1])>>
    /\ pc' = "evaluated"
    /\ UNCHANGED <<expr, error, ast, printed, serial, rebuilt>>

CallPrint ==
    /\ pc = "evaluated"
    /\ printed' = <<PrintNode(ast[1])>>
    /\ pc' = "printed"
    /\ UNCHANGED <<expr, error, ast, value, serial, rebuilt>>

CallSerialize ==
    /\ pc = "printed"
    /\ serial' = <<Serialize(ast[1])>>
    /\ pc' = "serialized"
    /\ UNCHANGED <<expr, error, ast, value, printed, rebuilt>>

CallDeserialize ==
    /\ pc = "serialized"
    /\ rebuilt' = Deserialize(serial[1])
    /\ pc' = "rebuilt"
    /\ UNCHANGED <<expr, error, ast, value, printed, serial>>

Next ==
    \/ \E c \in Alphabet : Type(c)
    \/ CallParse
    \/ CallEvaluate
    \/ CallPrint
    \/ CallSerialize
    \/ CallDeserialize

NextInfix ==
    \/ \E c \in InfixAlphabet : TypeInfix(c)
    \/ CallParse
    \/ CallEvaluate
    \/ CallPrint
    \/ CallSerialize
    \/ CallDeserialize

NextTree ==
    \/ CallEvaluate
    \/ CallPrint
    \/ CallSerialize
    \/ CallDeserialize

Spec == Init /\ [][Next]_vars
SpecInfix == Init /\ [][NextInfix]_vars
SpecTree == InitTree /\ [][NextTree]_vars

-----------------------------------------------------------------------------
(* The line as parse sees it *)

Stripped == StripWhitespace(expr)
Tokens == Tokenize(Stripped).tokens

IsOperatorToken(tk) == ~tk.num /\ tk.s \in Operators
Leaf(tk) == NumberNode(tk.v)

\* parse has been called on the line
ParseCalled == pc # "input"
\* parse returned a node
ParseReturned == ParseCalled /\ error = NoError /\ ast # <<>>

-----------------------------------------------------------------------------
(* C1 *)

Additive == {"+", "-"}
Comparisons == {"<", ">", "="}

\* the line is  a op1 b op2 c  for numbers a, b, c
IsTriple(op1s, op2s) ==
    /\ IsValid(Stripped)
    /\ Tokenize(Stripped).error = NoError
    /\ Len(Tokens) = 5
    /\ \A i \in {1, 3, 5} : Tokens[i].num /\ Tokens[i].v.k = "num"
    /\ ~Tokens[2].num /\ Tokens[2].s \in op1s
    /\ ~Tokens[4].num /\ Tokens[4].s \in op2s

LeftGrouped ==
    BinaryOperationNode(
        BinaryOperationNode(Leaf(Tokens[1]), Leaf(Tokens[3]), Tokens[2].s),
        Leaf(Tokens[5]), Tokens[4].s)

\* C1: comparison operators have the precedence of '+' and '-', so that
\* parse("a + b < c") is ((a + b) < c) and parse("a < b + c") is ((a < b) + c).
C1_ComparisonSharesAdditivePrecedence ==
    (ParseCalled /\ (IsTriple(Additive, Comparisons) \/ IsTriple(Comparisons, Additive)))
        => /\ \A op \in Comparisons : Precedence(op) = Precedence("+")
           /\ ParseReturned
           /\ ast[1] = LeftGrouped

-----------------------------------------------------------------------------
(* C2: the reference evaluation, by recursive descent over the tokens:      *)
(*   expression ::= term { additive term }          folded from the left    *)
(*   term       ::= factor { multiplicative factor } folded from the left   *)
(*   factor     ::= number | "(" expression ")"                             *)
(* A result is [ok, dz, v, i]: the tokens parsed, a division by zero met,   *)
(* the value, the next position.                                            *)

RefFail == [ok |-> FALSE, dz |-> FALSE, v |-> NaN, i |-> 0]

RefApply(op, a, b, i) ==
    [ok |-> TRUE,
     dz |-> a.dz \/ b.dz \/ (op = "/" /\ IsZero(b.v)),
     v |-> CASE op = "+" -> Add(a.v, b.v)
             [] op = "-" -> Sub(a.v, b.v)
             [] op = "*" -> Mul(a.v, b.v)
             [] OTHER -> IF IsZero(b.v) THEN NaN ELSE Div(a.v, b.v),
     i |-> i]

IsSymbolAt(t, i, syms) == i <= Len(t) /\ ~t[i].num /\ t[i].s \in syms

RECURSIVE RefExpression(_, _)
RECURSIVE RefExpressionRest(_, _)
RECURSIVE RefTerm(_, _)
RECURSIVE RefTermRest(_, _)
RECURSIVE RefFactor(_, _)

RefFactor(t, i) ==
    IF i > Len(t) THEN RefFail
    ELSE IF t[i].num THEN [ok |-> TRUE, dz |-> FALSE, v |-> t[i].v, i |-> i + 1]
    ELSE IF t[i].s = "("
         THEN LET e == RefExpression(t, i + 1)
              IN  IF e.ok /\ IsSymbolAt(t, e.i, {")"})
                  THEN [e EXCEPT !.i = e.i + 1]
                  ELSE RefFail
    ELSE RefFail

RefTermRest(t, acc) ==
    IF IsSymbolAt(t, acc.i, {"*", "/"})
    THEN LET f == RefFactor(t, acc.i + 1)
         IN  IF f.ok THEN RefTermRest(t, RefApply(t[acc.i].s, acc, f, f.i))
             ELSE RefFail
    ELSE acc

RefTerm(t, i) ==
    LET f == RefFactor(t, i) IN IF f.ok THEN RefTermRest(t, f) ELSE RefFail

RefExpressionRest(t, acc) ==
    IF IsSymbolAt(t, acc.i, {"+", "-"})
    THEN LET f == RefTerm(t, acc.i + 1)
         IN  IF f.ok THEN RefExpressionRest(t, RefApply(t[acc.i].s, acc, f, f.i))
             ELSE RefFail
    ELSE acc

RefExpression(t, i) ==
    LET f == RefTerm(t, i) IN IF f.ok THEN RefExpressionRest(t, f) ELSE RefFail

Reference == RefExpression(Tokens, 1)

\* the line is a well-formed expression over numbers, + - * / and parentheses
\* in which no division by zero occurs
WellFormedArithmetic ==
    /\ \A i \in 1..Len(expr) : expr[i] \in DigitChars \cup {"+", "-", "*", "/", "(", ")"}
    /\ Reference.ok
    /\ Reference.i = Len(Tokens) + 1
    /\ ~Reference.dz

\* C2: on a well-formed arithmetic line parse returns a tree, and evaluate
\* returns the value of the reference evaluation.
C2_ArithmeticMatchesReference ==
    (ParseCalled /\ WellFormedArithmetic)
        => /\ ParseReturned
           /\ value # <<>> => value[1] = Returned(Reference.v)

SymbolsUsed == {Tokens[i].s : i \in {j \in 1..Len(Tokens) : ~Tokens[j].num}}

\* a line with a group, a multiplicative and an additive operator was evaluated
C2_Witness ==
    /\ pc = "evaluated"
    /\ WellFormedArithmetic
    /\ "(" \in SymbolsUsed
    /\ SymbolsUsed \cap {"*", "/"} # {}
    /\ SymbolsUsed \cap {"+", "-"} # {}
    /\ value[1].err = ""

-----------------------------------------------------------------------------
(* Counting, for the claims about parentheses *)

Count(s, c) == Cardinality({i \in 1..Len(s) : s[i] = c})

\* some prefix holds more ")" than "(", or the totals differ
Unbalanced(s) ==
    \/ \E k \in 1..Len(s) : Count(SubSeq(s, 1, k), ")") > Count(SubSeq(s, 1, k), "(")
    \/ Count(s, "(") # Count(s, ")")

Accepted == NumberChars \cup SymbolChars
HasIllegal(s) == \E i \in 1..Len(s) : s[i] \notin Accepted
FirstIllegal(s) ==
    CHOOSE i \in 1..Len(s) :
        s[i] \notin Accepted /\ \A j \in 1..(i - 1) : s[j] \in Accepted

\* balanced, over the accepted character set, every run of [0-9.] a number
AcceptedLine ==
    /\ ~Unbalanced(Stripped)
    /\ ~HasIllegal(Stripped)
    /\ \A i \in 1..Len(Tokens) : Tokens[i].num => Tokens[i].v.k = "num"

\* parse threw, or returned a node that was then evaluated
ParsedAndEvaluated == pc = "rejected" \/ value # <<>>

TreeBuildErrors == {"InsufficientOperands", "InvalidExpression"}

-----------------------------------------------------------------------------
(* C3 *)

\* C3: the tree rebuilt by deserialize(t.serialize()) serializes, prints and
\* evaluates as t does.
C3_RoundTrip ==
    pc = "rebuilt"
        => /\ rebuilt # <<>>
           /\ Serialize(rebuilt[1]) = serial[1]
           /\ PrintNode(rebuilt[1]) = printed[1]
           /\ Evaluate(rebuilt[1]) = value[1]

\* a tree two operations deep, with unlike operands, went round
C3_Witness ==
    /\ pc = "rebuilt"
    /\ rebuilt # <<>>
    /\ ast[1].class = "BinaryOperationNode"
    /\ ast[1].left.class = "BinaryOperationNode"
    /\ ast[1].right.class = "NumberNode"
    /\ ast[1].operator \in Comparisons
    /\ ast[1].left.operator = "/"
    /\ ast[1].left.left # ast[1].left.right

-----------------------------------------------------------------------------
(* C4 *)

\* C4: parse fails with InvalidParentheses exactly on the lines whose stripped
\* form is unbalanced, whatever else is wrong with them.
C4_InvalidParenthesesIffUnbalanced ==
    ParseCalled => ((error.err = "InvalidParentheses") <=> Unbalanced(Stripped))

\* an unbalanced line that also holds an illegal character and starts with an
\* operator was rejected for its parentheses
C4_Witness ==
    /\ ParseCalled
    /\ error.err = "InvalidParentheses"
    /\ HasIllegal(Stripped)
    /\ Stripped[1] \in Operators

-----------------------------------------------------------------------------
(* C5 *)

ContainsEmptyGroup(s) == \E i \in 1..(Len(s) - 1) : s[i] = "(" /\ s[i + 1] = ")"

\* C5: a balanced line over the accepted characters that holds an empty group
\* "()" makes parse fail with InsufficientOperands or InvalidExpression.
C5_EmptyGroupRejected ==
    (ParseCalled /\ AcceptedLine /\ ContainsEmptyGroup(Stripped))
        => error.err \in TreeBuildErrors

-----------------------------------------------------------------------------
(* C6 *)

Dangling ==
    /\ Len(Tokens) > 0
    /\ \/ IsOperatorToken(Tokens[1])
       \/ IsOperatorToken(Tokens[Len(Tokens)])
       \/ \E i \in 1..(Len(Tokens) - 1) :
              IsOperatorToken(Tokens[i]) /\ IsOperatorToken(Tokens[i + 1])

\* C6: on a balanced line over the accepted characters whose first or last token
\* is an operator, or that holds two adjacent operators, parse followed by
\* evaluate throws InsufficientOperands or InvalidExpression.
C6_DanglingOperatorRejected ==
    (ParsedAndEvaluated /\ AcceptedLine /\ Dangling) => error.err \in TreeBuildErrors

-----------------------------------------------------------------------------
(* C7 *)

RECURSIVE Subtrees(_)
Subtrees(node) ==
    IF node.class = "NumberNode" THEN {node}
    ELSE {node} \cup Subtrees(node.left) \cup Subtrees(node.right)

Divisions(node) ==
    {n \in Subtrees(node) : n.class = "BinaryOperationNode" /\ n.operator = "/"}

\* C7: evaluate throws DivisionByZero exactly when the tree holds a '/' node
\* whose right operand evaluates to the number 0; a '/' node whose operands
\* evaluate and whose right operand is a boolean or a non-zero number returns.
C7_DivisionByZeroIffZeroDivisor ==
    pc = "evaluated"
        => /\ (value[1] = Thrown("DivisionByZero"))
                <=> (\E n \in Divisions(ast[1]) : Evaluate(n.right) = Returned(IntNum(0)))
           /\ \A n \in Divisions(ast[1]) :
                 (/\ Evaluate(n.left).err = ""
                  /\ Evaluate(n.right).err = ""
                  /\ Evaluate(n.right).v # IntNum(0)) => Evaluate(n).err = ""

\* a division by zero in the left operand of an enclosing node threw
C7_Witness ==
    /\ pc = "evaluated"
    /\ value[1] = Thrown("DivisionByZero")
    /\ ast[1].class = "BinaryOperationNode"
    /\ ast[1].operator = "+"
    /\ ast[1].left.class = "BinaryOperationNode"
    /\ ast[1].left.operator = "/"
    /\ ast[1].left.right = NumberNode(IntNum(0))

-----------------------------------------------------------------------------
(* C8 *)

\* C8: on a balanced line holding an illegal character parse fails with
\* UnexpectedToken, naming the first such character and its zero-based index
\* in the stripped line.
C8_UnexpectedTokenFirstIllegal ==
    (ParseCalled /\ ~Unbalanced(Stripped) /\ HasIllegal(Stripped))
        => error = [err |-> "UnexpectedToken",
                    ch |-> Stripped[FirstIllegal(Stripped)],
                    pos |-> FirstIllegal(Stripped) - 1]

\* tokens and white space precede the first of two unlike illegal characters
C8_Witness ==
    /\ ParseCalled
    /\ error.err = "UnexpectedToken"
    /\ error.pos >= 2
    /\ expr[error.pos + 1] # error.ch
    /\ Cardinality({Stripped[i] : i \in 1..Len(Stripped)} \ Accepted) = 2

-----------------------------------------------------------------------------
(* C9 *)

RECURSIVE CountBinary(_)
CountBinary(node) ==
    IF node.class = "NumberNode" THEN 0
    ELSE 1 + CountBinary(node.left) + CountBinary(node.right)

\* C9: the printed string of a BinaryOperationNode is "(" left " " operator " "
\* right ")", that of a NumberNode holds no parenthesis, and the printed string
\* of a tree holds one matched pair of parentheses per BinaryOperationNode.
C9_PrintFullyParenthesized ==
    pc = "printed"
        => LET p == printed[1]
               t == ast[1]
           IN  /\ Count(p, "(") = CountBinary(t)
               /\ Count(p, ")") = CountBinary(t)
               /\ ~Unbalanced(p)
               /\ Count(p, " ") = 2 * CountBinary(t)
               /\ t.class = "BinaryOperationNode"
                     => p = <<"(">> \o PrintNode(t.left)
                              \o <<" ", t.operator, " ">>
                              \o PrintNode(t.right) \o <<")">>

\* a tree of two multiplicative operations under no additive one was printed
C9_Witness ==
    /\ pc = "printed"
    /\ CountBinary(ast[1]) = 2
    /\ ast[1].operator = "*"
    /\ ast[1].right.class = "BinaryOperationNode"
    /\ ast[1].right.operator = "/"

-----------------------------------------------------------------------------
(* C10 *)

\* true taken as 1, false as 0
AsOneOrZero(v) ==
    IF v = Bool(TRUE) THEN IntNum(1) ELSE IF v = Bool(FALSE) THEN IntNum(0) ELSE v

Arithmetic(op, a, b) ==
    CASE op = "+" -> Add(a, b) [] op = "-" -> Sub(a, b) [] op = "*" -> Mul(a, b)

-----------------------------------------------------------------------------
(* C11 *)

\* the output queue and the operator stack after the first k tokens
RECURSIVE YardAfter(_, _)
YardAfter(tokens, k) ==
    IF k = 0 THEN [outputQueue |-> <<>>, opStack |-> <<>>]
    ELSE LET st == YardAfter(tokens, k - 1)
         IN  ShuntingYardStep(tokens[k], st.outputQueue, st.opStack)

\* the line passes isValid and tokenize, so the shunting-yard loop runs on it
ReachesYard == IsValid(Stripped) /\ Tokenize(Stripped).error = NoError

Parens == {"(", ")"}

\* C11: on a line that passes isValid, the pop loop of every ")" stops with a
\* "(" on top of the operator stack, no "(" is left on the stack at the drain,
\* and the postfix output holds no parenthesis.
C11_ParenthesisInvariant ==
    (pc \in {"tree", "rejected"} /\ ReachesYard)
        => /\ \A k \in 1..Len(Tokens) :
                 Tokens[k] = SymbolToken(")")
                    => LET st == YardAfter(Tokens, k - 1)
                           p == PopToParen(st.outputQueue, st.opStack)
                       IN  Len(p.opStack) > 0 /\ Top(p.opStack) = "("
           /\ LET final == YardAfter(Tokens, Len(Tokens)).opStack
              IN  \A i \in 1..Len(final) : final[i] # "("
           /\ LET out == ShuntingYard(Tokens)
              IN  \A i \in 1..Len(out) : out[i].num \/ out[i].s \notin Parens

\* a ")" was processed with an operator above its "(" on the stack
C11_Witness ==
    /\ pc = "tree"
    /\ ReachesYard
    /\ \E k \in 1..Len(Tokens) :
          /\ Tokens[k] = SymbolToken(")")
          /\ LET st == YardAfter(Tokens, k - 1)
             IN  /\ Len(st.opStack) >= 2
                 /\ Top(st.opStack) \in Operators
                 /\ st.opStack[Len(st.opStack) - 1] = "("

-----------------------------------------------------------------------------
(* C12 *)

\* the number of nodes on the node stack while the postfix sequence q is
\* consumed from position i on: short when an operator meets fewer than two
RECURSIVE NodesLeft(_, _, _)
NodesLeft(q, i, n) ==
    IF i > Len(q) THEN [short |-> FALSE, n |-> n]
    ELSE IF q[i].num THEN NodesLeft(q, i + 1, n + 1)
    ELSE IF n < 2 THEN [short |-> TRUE, n |-> n]
    ELSE NodesLeft(q, i + 1, n - 1)

RECURSIVE LeafCount(_, _)
LeafCount(node, v) ==
    IF node.class = "NumberNode" THEN (IF node.value = v THEN 1 ELSE 0)
    ELSE LeafCount(node.left, v) + LeafCount(node.right, v)

RECURSIVE OperatorCount(_, _)
OperatorCount(node, op) ==
    IF node.class = "NumberNode" THEN 0
    ELSE (IF node.operator = op THEN 1 ELSE 0)
            + OperatorCount(node.left, op) + OperatorCount(node.right, op)

TokenCount(tk) == Cardinality({i \in 1..Len(Tokens) : Tokens[i] = tk})
NumberTokens == {i \in 1..Len(Tokens) : Tokens[i].num}

\* C12: parse fails with InsufficientOperands when an operator of the postfix
\* sequence meets fewer than two nodes, with InvalidExpression when none does
\* and the nodes left are not exactly one, and otherwise returns the one node
\* left, which holds every number and operator token of the line exactly once.
C12_TreeBuildOutcome ==
    (pc \in {"tree", "rejected"} /\ ReachesYard)
        => LET c == NodesLeft(ShuntingYard(Tokens), 1, 0)
           IN  /\ c.short => error.err = "InsufficientOperands" /\ ast = <<>>
               /\ (~c.short /\ c.n # 1) => error.err = "InvalidExpression" /\ ast = <<>>
               /\ (\A i \in 1..Len(Tokens) : Tokens[i].s \in Parens)
                     => error.err = "InvalidExpression" /\ c.n = 0
               /\ (~c.short /\ c.n = 1)
                     => /\ error = NoError
                        /\ Len(ast) = 1
                        /\ CountBinary(ast[1]) + 1 = Cardinality(NumberTokens)
                        /\ \A i \in NumberTokens :
                              LeafCount(ast[1], Tokens[i].v) = TokenCount(Tokens[i])
                        /\ \A op \in Operators :
                              OperatorCount(ast[1], op) = TokenCount(SymbolToken(op))

\* surplus operands: two nodes were left after the last token
C12_Witness ==
    /\ pc = "rejected"
    /\ ReachesYard
    /\ error.err = "InvalidExpression"
    /\ NodesLeft(ShuntingYard(Tokens), 1, 0).n >= 2

-----------------------------------------------------------------------------
(* C13 *)

\* every number of the tree prints as a string of digits
RECURSIVE PlainLiterals(_)
PlainLiterals(node) ==
    IF node.class = "NumberNode"
    THEN LET str == NumberToString(node.value)
         IN  \A i \in 1..Len(str) : str[i] \in DigitChars
    ELSE PlainLiterals(node.left) /\ PlainLiterals(node.right)

\* C13: parsing the printed form of a tree that parse returned, whose numbers
\* print as digit strings, returns a tree that serializes as the first one
\* (and so prints as it does).
C13_PrintParseRoundTrip ==
    (pc = "printed" /\ Len(expr) > 0 /\ PlainLiterals(ast[1]))
        => LET again == Parse(printed[1])
           IN  /\ again.error = NoError
               /\ Len(again.ast) = 1
               /\ Serialize(again.ast[1]) = Serialize(ast[1])
               /\ PrintNode(again.ast[1]) = printed[1]

\* a parsed tree of two operations, one of them a comparison, was printed
C13_Witness ==
    /\ pc = "printed"
    /\ Len(expr) > 0
    /\ PlainLiterals(ast[1])
    /\ CountBinary(ast[1]) = 2
    /\ OperatorCount(ast[1], "<") = 1
    /\ OperatorCount(ast[1], "+") = 1

====
